---- MODULE Spec2Model ----
(***************************************************************************)
(* Credential brokering and role synchronisation of superset_spcs:         *)
(*   superset/config/spcs_snowflake_engine_spec.py  (engine spec)          *)
(*   superset/config/superset_config.py             (connector patch)      *)
(*   superset/config/sf_security.py                 (role sync)            *)
(* Strings are sequences of one-character strings, so that strip, split,   *)
(* startswith, endswith and lower are computed as Python computes them.    *)
(***************************************************************************)
EXTENDS Integers, Sequences, FiniteSets, TLC

VARIABLES env, tokenFile, request, engine, conns, ret,
          now, user, grants, link, stored, middleware, sessions

vars == <<env, tokenFile, request, engine, conns, ret,
          now, user, grants, link, stored, middleware, sessions>>

\* the variables of the role sync
syncVars == <<now, user, grants, link, stored, sessions>>

(***************************************************************************)
(* Python values                                                           *)
(***************************************************************************)
\* Python's None where a str is expected; no string holds this element.
None == <<"None">>

Truthy(s) == s # None /\ s # <<>>

\* a or b
Or(a, b) == IF Truthy(a) THEN a ELSE b

Whitespace == {" ", "\n", "\t"}

RECURSIVE LStrip(_)
LStrip(s) == IF s # <<>> /\ Head(s) \in Whitespace THEN LStrip(Tail(s)) ELSE s

RECURSIVE RStrip(_)
RStrip(s) ==
  IF s # <<>> /\ s[Len(s)] \in Whitespace THEN RStrip(SubSeq(s, 1, Len(s) - 1)) ELSE s

\* str.strip()
Strip(s) == RStrip(LStrip(s))

\* str.startswith / str.endswith / str.removeprefix
StartsWith(s, p) == Len(s) >= Len(p) /\ SubSeq(s, 1, Len(p)) = p
EndsWith(s, p) == Len(s) >= Len(p) /\ SubSeq(s, Len(s) - Len(p) + 1, Len(s)) = p
RemovePrefix(s, p) == IF StartsWith(s, p) THEN SubSeq(s, Len(p) + 1, Len(s)) ELSE s

\* c in s, for a one-character c
Contains(s, c) == \E i \in 1..Len(s) : s[i] = c

\* index of the first c in s (0 when there is none)
FirstIndex(s, c) ==
  IF Contains(s, c) THEN CHOOSE i \in 1..Len(s) : s[i] = c /\ \A j \in 1..(i - 1) : s[j] # c
  ELSE 0

\* s.split(c, 1)[0] and s.split(c, 1)[1]
SplitHead(s, c) == IF Contains(s, c) THEN SubSeq(s, 1, FirstIndex(s, c) - 1) ELSE s
SplitTail(s, c) == SubSeq(s, FirstIndex(s, c) + 1, Len(s))

UpperLetters ==
  <<"A", "B", "C", "D", "E", "F", "G", "H", "I", "J", "K", "L", "M", "N", "O", "P", "Q", "R",
    "S", "T", "U", "V", "W", "X", "Y", "Z">>
LowerLetters ==
  <<"a", "b", "c", "d", "e", "f", "g", "h", "i", "j", "k", "l", "m", "n", "o", "p", "q", "r",
    "s", "t", "u", "v", "w", "x", "y", "z">>

\* the lower-case letter of each upper-case ASCII letter, and the converse
UpperCase ==
  [c \in {UpperLetters[i] : i \in 1..Len(UpperLetters)} |->
     LowerLetters[CHOOSE i \in 1..Len(UpperLetters) : UpperLetters[i] = c]]
LowerCase ==
  [c \in {LowerLetters[i] : i \in 1..Len(LowerLetters)} |->
     UpperLetters[CHOOSE i \in 1..Len(LowerLetters) : LowerLetters[i] = c]]

\* str.lower()
Lower(s) == [i \in 1..Len(s) |-> IF s[i] \in DOMAIN UpperCase THEN UpperCase[s[i]] ELSE s[i]]

\* str.upper()
Upper(s) == [i \in 1..Len(s) |-> IF s[i] \in DOMAIN LowerCase THEN LowerCase[s[i]] ELSE s[i]]

\* dict helpers: a dict is a function from its keys
EmptyDict == [k \in {} |-> None]
Get(d, k) == IF k \in DOMAIN d THEN d[k] ELSE None
Without(d, ks) == [k \in (DOMAIN d) \ ks |-> d[k]]
\* d | e and d.update(e): the entries of e win
Update(d, e) == [k \in (DOMAIN d) \cup (DOMAIN e) |-> IF k \in DOMAIN e THEN e[k] ELSE d[k]]
SetDefault(d, k, v) == IF k \in DOMAIN d THEN d ELSE Update(d, (k :> v))
\* dict entry added only under a condition
PutIf(d, cond, k, v) == IF cond THEN Update(d, (k :> v)) ELSE d

(***************************************************************************)
(* Literals of the program                                                 *)
(***************************************************************************)
SnowflakeDomain ==
  <<".", "s", "n", "o", "w", "f", "l", "a", "k", "e", "c", "o", "m", "p", "u", "t", "i", "n",
    "g", ".", "c", "o", "m">>
PrivateLinkDomain ==
  <<".", "p", "r", "i", "v", "a", "t", "e", "l", "i", "n", "k">> \o SnowflakeDomain
Https == <<"h", "t", "t", "p", "s", ":", "/", "/">>
Http == <<"h", "t", "t", "p", ":", "/", "/">>
service == <<"s", "e", "r", "v", "i", "c", "e">>
caller == <<"c", "a", "l", "l", "e", "r">>
oauth == <<"o", "a", "u", "t", "h">>
One == <<"1">>

ACCOUNT_ENV_CANDIDATES ==
  <<"SNOWFLAKE_ACCOUNT", "SNOWFLAKE_ACCOUNT_NAME", "SNOWFLAKE_ACCOUNT_IDENTIFIER",
    "SNOWFLAKE_ACCOUNT_LOCATOR">>

ReservedKeys_token_only == {"token"}

ReservedKeys == {"account", "host", "authenticator", "token", "user", "username", "password"}

EnvNames ==
  {"SNOWFLAKE_ACCOUNT", "SNOWFLAKE_ACCOUNT_NAME", "SNOWFLAKE_ACCOUNT_IDENTIFIER",
   "SNOWFLAKE_ACCOUNT_LOCATOR", "SNOWFLAKE_HOST", "SNOWFLAKE_DATABASE", "SNOWFLAKE_SCHEMA",
   "SNOWFLAKE_WAREHOUSE", "SNOWFLAKE_ROLE", "SPCS_SNOWFLAKE_AUTH", "SPCS_SNOWFLAKE_DEBUG",
   "SPCS_SNOWFLAKE_POOL_RECYCLE", "SF_SUPERSET_USER_MAP", "SF_USER_UNMAPPED_POLICY",
   "SF_FAKE_REMOTE_USER", "SF_USERNAME_NORMALIZER"}

\* os.getenv(key) and os.getenv(key, default) on the environment e
Getenv(e, key) == e[key]
GetenvOr(e, key, default) == IF e[key] = None THEN default ELSE e[key]

(***************************************************************************)
(* spcs_snowflake_engine_spec.py: pure helpers                             *)
(***************************************************************************)
\* A call's result: a returned value or a raised error.
Ok(v) == [outcome |-> "ok", value |-> v]
Raise(e) == [outcome |-> e, value |-> None]

\* _read_service_token(): the file is absent, not openable, failing otherwise,
\* or readable with some content.
read_service_token(f) ==
  CASE f.kind = "absent" -> Ok(None)
    [] f.kind = "denied" -> Raise("TokenNotReadable")
    [] f.kind = "ioerror" -> Raise("TokenReadFailed")
    \* the empty-file RuntimeError is raised inside the try block and is
    \* re-raised by the final `except Exception` clause
    [] OTHER -> IF Strip(f.content) = <<>> THEN Raise("TokenReadFailed")
                ELSE Ok(Strip(f.content))

RECURSIVE env_first_from(_, _, _)
env_first_from(e, keys, i) ==
  IF i > Len(keys) THEN None
  ELSE IF Truthy(Getenv(e, keys[i])) THEN Getenv(e, keys[i])
  ELSE env_first_from(e, keys, i + 1)

RECURSIVE env_last_from(_, _, _)
env_last_from(e, keys, i) ==
  IF i < 1 THEN None
  ELSE IF Truthy(Getenv(e, keys[i])) THEN Getenv(e, keys[i])
  ELSE env_last_from(e, keys, i - 1)

env_first_reversed(e, keys) == env_last_from(e, keys, Len(keys))

\* _env_first(keys)
env_first(e, keys) == env_first_from(e, keys, 1)

\* _infer_host(account)
infer_host(account) ==
  IF Contains(account, ".") /\ EndsWith(account, SnowflakeDomain) THEN account
  ELSE account \o SnowflakeDomain

\* _normalize_host(host)
normalize_host(host) ==
  LET h0 == Strip(host)
      h1 == IF StartsWith(h0, Https) THEN RemovePrefix(h0, Https) ELSE h0
      h2 == IF StartsWith(h1, Http) THEN RemovePrefix(h1, Http) ELSE h1
      h3 == SplitHead(h2, "/")
  IN  SplitHead(h3, ":")

\* host[: -len(suffix)] or None
CutSuffix(host, suffix) ==
  LET cut == SubSeq(host, 1, Len(host) - Len(suffix)) IN IF cut = <<>> THEN None ELSE cut

\* _infer_account_from_host(host): the public suffix is tried first
infer_account_from_host(host) ==
  LET h == normalize_host(host)
  IN  IF EndsWith(h, SnowflakeDomain) THEN CutSuffix(h, SnowflakeDomain)
      ELSE IF EndsWith(h, PrivateLinkDomain) THEN CutSuffix(h, PrivateLinkDomain)
      ELSE None

\* _split_database_schema(database) -> (db, schema)
split_database_schema(database) ==
  IF ~Truthy(database) THEN <<None, None>>
  ELSE IF Contains(database, "/")
    THEN <<Or(SplitHead(database, "/"), None), Or(SplitTail(database, "/"), None)>>
  ELSE <<database, None>>


(***************************************************************************)
(* Inputs: a URI is what make_url() yields, its path and its query; a      *)
(* request is the Flask request context of the calling worker.             *)
(***************************************************************************)
CallerHeader == "Sf-Context-Current-User-Token"

\* has_request_context()
has_request_context(req) == req.ctx

\* request.headers.get("Sf-Context-Current-User-Token")
caller_token_header(req) == Get(req.headers, CallerHeader)

\* (q.get("spcs_auth") or os.getenv("SPCS_SNOWFLAKE_AUTH", "service")).lower()
spcs_auth_of(uri, e) ==
  Lower(Or(Get(uri.query, "spcs_auth"), GetenvOr(e, "SPCS_SNOWFLAKE_AUTH", service)))

\* account = _env_first(...) or _infer_account_from_host(os.getenv("SNOWFLAKE_HOST", ""))
resolve_account(e) ==
  Or(env_first(e, ACCOUNT_ENV_CANDIDATES),
     infer_account_from_host(GetenvOr(e, "SNOWFLAKE_HOST", <<>>)))

\* host = _normalize_host(os.getenv("SNOWFLAKE_HOST", "")) or _infer_host(account)
resolve_host(e, account) ==
  Or(normalize_host(GetenvOr(e, "SNOWFLAKE_HOST", <<>>)), infer_host(account))

caller_check_skipped(auth, req) == "ok"

\* the caller-mode validation of _get_connect_kwargs
caller_check(auth, req) ==
  IF auth # caller THEN "ok"
  ELSE IF ~has_request_context(req) THEN "MissingCallerContext"
  ELSE IF ~Truthy(caller_token_header(req)) THEN "MissingCallerToken"
  ELSE "ok"

get_connect_kwargs_query_first(uri, connect_args, e, req) ==
  LET ca == Without(connect_args, ReservedKeys)
      q == uri.query
      path == split_database_schema(uri.database)
      database == Or(Or(Get(q, "database"), path[1]), Getenv(e, "SNOWFLAKE_DATABASE"))
      schema == Or(Or(Get(q, "schema"), path[2]), Getenv(e, "SNOWFLAKE_SCHEMA"))
      warehouse == Or(Get(q, "warehouse"), Getenv(e, "SNOWFLAKE_WAREHOUSE"))
      role == Or(Get(q, "role"), Getenv(e, "SNOWFLAKE_ROLE"))
      account == resolve_account(e)
      host == resolve_host(e, account)
      k0 == [k \in {"host", "account", "authenticator"} |->
               CASE k = "host" -> host [] k = "account" -> account [] OTHER -> oauth]
      k1 == PutIf(k0, Truthy(warehouse), "warehouse", warehouse)
      k2 == PutIf(k1, Truthy(role), "role", role)
      k3 == PutIf(k2, Truthy(database), "database", database)
      k4 == PutIf(k3, Truthy(schema), "schema", schema)
  IN  IF ~Truthy(account) THEN Raise("MissingAccount")
      ELSE IF caller_check(spcs_auth_of(uri, e), req) # "ok"
        THEN Raise(caller_check(spcs_auth_of(uri, e), req))
      ELSE Ok(Update(k4, ca))

\* SPCSSnowflakeEngineSpec._get_connect_kwargs(uri, connect_args)
get_connect_kwargs(uri, connect_args, e, req) ==
  LET ca == Without(connect_args, ReservedKeys)
      q == uri.query
      path == split_database_schema(uri.database)
      database == Or(Or(path[1], Get(q, "database")), Getenv(e, "SNOWFLAKE_DATABASE"))
      schema == Or(Or(path[2], Get(q, "schema")), Getenv(e, "SNOWFLAKE_SCHEMA"))
      warehouse == Or(Get(q, "warehouse"), Getenv(e, "SNOWFLAKE_WAREHOUSE"))
      role == Or(Get(q, "role"), Getenv(e, "SNOWFLAKE_ROLE"))
      account == resolve_account(e)
      host == resolve_host(e, account)
      k0 == [k \in {"host", "account", "authenticator"} |->
               CASE k = "host" -> host [] k = "account" -> account [] OTHER -> oauth]
      k1 == PutIf(k0, Truthy(warehouse), "warehouse", warehouse)
      k2 == PutIf(k1, Truthy(role), "role", role)
      k3 == PutIf(k2, Truthy(database), "database", database)
      k4 == PutIf(k3, Truthy(schema), "schema", schema)
  IN  IF ~Truthy(account) THEN Raise("MissingAccount")
      ELSE IF caller_check(spcs_auth_of(uri, e), req) # "ok"
        THEN Raise(caller_check(spcs_auth_of(uri, e), req))
      ELSE Ok(Update(k4, ca))


(***************************************************************************)
(* get_sqlalchemy_engine and the connection-creation hook                  *)
(***************************************************************************)
DigitValue ==
  [c \in {"0", "1", "2", "3", "4", "5", "6", "7", "8", "9"} |->
     CASE c = "0" -> 0 [] c = "1" -> 1 [] c = "2" -> 2 [] c = "3" -> 3 [] c = "4" -> 4
       [] c = "5" -> 5 [] c = "6" -> 6 [] c = "7" -> 7 [] c = "8" -> 8 [] c = "9" -> 9]

IsDecimal(s) == s # <<>> /\ \A i \in 1..Len(s) : s[i] \in DOMAIN DigitValue

RECURSIVE ParseInt(_)
\* int(s) of a decimal string
ParseInt(s) ==
  IF s = <<>> THEN 0 ELSE 10 * ParseInt(SubSeq(s, 1, Len(s) - 1)) + DigitValue[s[Len(s)]]

DefaultPoolRecycle == <<"3", "3", "0", "0">>

\* the URL "snowflake://" the brokered engine is built on
BareUrl == [database |-> None, query |-> EmptyDict]

engine_kwargs_for_keep_poolclass(kwargs, auth, e) ==
  SetDefault(SetDefault(kwargs, "pool_pre_ping", TRUE), "pool_recycle",
             ParseInt(GetenvOr(e, "SPCS_SNOWFLAKE_POOL_RECYCLE", DefaultPoolRecycle)))

\* engine_kwargs of get_sqlalchemy_engine: the defaults and the pooling policy
engine_kwargs_for(kwargs, auth, e) ==
  LET k1 == SetDefault(kwargs, "pool_pre_ping", TRUE)
      k2 == SetDefault(k1, "pool_recycle",
                       ParseInt(GetenvOr(e, "SPCS_SNOWFLAKE_POOL_RECYCLE", DefaultPoolRecycle)))
  IN  IF auth = caller THEN Update(k2, ("poolclass" :> "NullPool")) ELSE k2

PlainEngine(uri, connect_args, kwargs) ==
  [alive |-> TRUE, brokered |-> FALSE, url |-> uri, connect_args |-> connect_args, creator |-> FALSE,
   connect_kwargs |-> EmptyDict, spcs_auth |-> None, token |-> None, kwargs |-> kwargs]

BrokeredEngine(connect_kwargs, auth, token, engine_kwargs) ==
  [alive |-> TRUE, brokered |-> TRUE, url |-> BareUrl, connect_args |-> EmptyDict, creator |-> TRUE,
   connect_kwargs |-> connect_kwargs, spcs_auth |-> auth, token |-> token,
   kwargs |-> engine_kwargs]

EnabledRecord_with_token(token) ==
  [msg |-> "SPCS Snowflake EngineSpec enabled", token |-> token, token_len |-> Len(token),
   token_path |-> "_TOKEN_PATH"]

EnabledRecord(token) ==
  [msg |-> "SPCS Snowflake EngineSpec enabled", token_len |-> Len(token),
   token_path |-> "_TOKEN_PATH"]

ConfigRecord(ck, auth) ==
  [msg |-> "SPCS Snowflake connect config", host |-> Get(ck, "host"),
   account |-> Get(ck, "account"), warehouse |-> Get(ck, "warehouse"),
   role |-> Get(ck, "role"), database |-> Get(ck, "database"), schema |-> Get(ck, "schema"),
   spcs_auth |-> auth]

\* a call's result with the log records it emitted
Result(outcome, value, logged) == [outcome |-> outcome, value |-> value, logged |-> logged]

get_sqlalchemy_engine_resolve_first(uri, connect_args, kwargs, e, f, req) ==
  LET ck == get_connect_kwargs(uri, connect_args, e, req)
      tok == read_service_token(f)
  IN  IF ck.outcome # "ok" THEN Result(ck.outcome, None, <<>>)
      ELSE IF tok.outcome # "ok" THEN Result(tok.outcome, None, <<>>)
      ELSE IF ~Truthy(tok.value) THEN Result("ok", PlainEngine(uri, connect_args, kwargs), <<>>)
      ELSE Result("ok",
                  BrokeredEngine(ck.value, spcs_auth_of(uri, e), tok.value,
                                 engine_kwargs_for(kwargs, spcs_auth_of(uri, e), e)), <<>>)

\* SPCSSnowflakeEngineSpec.get_sqlalchemy_engine(uri, connect_args, **kwargs)
get_sqlalchemy_engine(uri, connect_args, kwargs, e, f, req) ==
  LET tok == read_service_token(f)
      debug == Getenv(e, "SPCS_SNOWFLAKE_DEBUG") = One
      log1 == IF debug THEN <<EnabledRecord(tok.value)>> ELSE <<>>
      ck == get_connect_kwargs(uri, connect_args, e, req)
      auth == spcs_auth_of(uri, e)
      log2 == IF debug THEN Append(log1, ConfigRecord(ck.value, auth)) ELSE log1
      recycle == GetenvOr(e, "SPCS_SNOWFLAKE_POOL_RECYCLE", DefaultPoolRecycle)
  IN  IF tok.outcome # "ok" THEN Result(tok.outcome, None, <<>>)
      ELSE IF ~Truthy(tok.value)
        THEN Result("ok", PlainEngine(uri, connect_args, kwargs), <<>>)
      ELSE IF ck.outcome # "ok" THEN Result(ck.outcome, None, log1)
      ELSE IF ~IsDecimal(recycle) THEN Result("ValueError", None, log2)
      ELSE Result("ok",
                  BrokeredEngine(ck.value, auth, tok.value, engine_kwargs_for(kwargs, auth, e)),
                  log2)

(***************************************************************************)
(* superset_config.py: the patch of snowflake.connector.connect            *)
(***************************************************************************)
\* _spcs_read_service_token(): only FileNotFoundError is caught
spcs_read_service_token(f) ==
  CASE f.kind = "absent" -> Ok(None)
    [] f.kind = "denied" -> Raise("PermissionError")
    [] f.kind = "ioerror" -> Raise("OSError")
    [] OTHER -> Ok(Or(Strip(f.content), None))

\* the host normalisation written out in _spcs_env_account and _spcs_connect
spcs_host(host) ==
  LET h1 == IF StartsWith(host, Https) THEN RemovePrefix(host, Https) ELSE host
      h2 == IF StartsWith(h1, Http) THEN RemovePrefix(h1, Http) ELSE h1
  IN  SplitHead(SplitHead(h2, "/"), ":")

\* _spcs_env_account()
spcs_env_account(e) ==
  LET first == env_first(e, ACCOUNT_ENV_CANDIDATES)
      host == spcs_host(Strip(Or(Getenv(e, "SNOWFLAKE_HOST"), <<>>)))
  IN  IF Truthy(first) THEN first
      ELSE IF EndsWith(host, SnowflakeDomain) THEN CutSuffix(host, SnowflakeDomain)
      ELSE IF EndsWith(host, PrivateLinkDomain) THEN CutSuffix(host, PrivateLinkDomain)
      ELSE None

AuthKeys == {"user", "username", "password", "account", "host", "authenticator", "token"}

\* _spcs_connect(**kwargs): the kwargs the original connect() is called with
spcs_connect(kwargs, e, f, req) ==
  LET tok == spcs_read_service_token(f)
      account == spcs_env_account(e)
      host0 == spcs_host(Strip(Or(Getenv(e, "SNOWFLAKE_HOST"), <<>>)))
      host == IF host0 = <<>> THEN account \o SnowflakeDomain ELSE host0
      callerMode == Lower(GetenvOr(e, "SPCS_SNOWFLAKE_AUTH", service)) = caller
      token == IF callerMode /\ has_request_context(req) /\ Truthy(caller_token_header(req))
               THEN tok.value \o <<".">> \o caller_token_header(req)
               ELSE tok.value
      brokered == [k \in {"host", "account", "authenticator", "token"} |->
                     CASE k = "host" -> host [] k = "account" -> account
                       [] k = "authenticator" -> oauth [] OTHER -> token]
  IN  IF tok.outcome # "ok" THEN Raise(tok.outcome)
      ELSE IF ~Truthy(tok.value) \/ ~Truthy(account) THEN Ok(kwargs)
      ELSE IF Get(kwargs, "authenticator") = oauth /\ Truthy(Get(kwargs, "token"))
        THEN Ok(kwargs)
      ELSE Ok(Update(Without(kwargs, AuthKeys), brokered))

(***************************************************************************)
(* creator(): the hook run for each new physical connection                *)
(***************************************************************************)
creator_cached_token(eng, e, f, req) ==
  LET token == IF eng.spcs_auth = caller
               THEN eng.token \o <<".">> \o caller_token_header(req) ELSE eng.token
  IN  IF eng.spcs_auth = caller /\ ~has_request_context(req)
        THEN Raise("OutsideRequestContext")
      ELSE IF eng.spcs_auth = caller /\ ~Truthy(caller_token_header(req))
        THEN Raise("MissingCallerToken")
      ELSE spcs_connect(Update(eng.connect_kwargs, ("token" :> token)), e, f, req)

creator_caller_first(eng, e, f, req) ==
  LET st == read_service_token(f)
      token == IF eng.spcs_auth = caller
               THEN caller_token_header(req) \o <<".">> \o st.value ELSE st.value
  IN  IF st.outcome # "ok" THEN Raise(st.outcome)
      ELSE IF ~Truthy(st.value) THEN Raise("TokenNotAvailable")
      ELSE IF eng.spcs_auth = caller /\ ~has_request_context(req)
        THEN Raise("OutsideRequestContext")
      ELSE IF eng.spcs_auth = caller /\ ~Truthy(caller_token_header(req))
        THEN Raise("MissingCallerToken")
      ELSE spcs_connect(Update(eng.connect_kwargs, ("token" :> token)), e, f, req)

\* creator() of the engine eng: the kwargs the connector is called with.
\* request.headers outside a request context raises (Flask's request proxy).
creator(eng, e, f, req) ==
  LET st == read_service_token(f)
      token == IF eng.spcs_auth = caller
               THEN st.value \o <<".">> \o caller_token_header(req) ELSE st.value
  IN  IF st.outcome # "ok" THEN Raise(st.outcome)
      ELSE IF ~Truthy(st.value) THEN Raise("TokenNotAvailable")
      ELSE IF eng.spcs_auth = caller /\ ~has_request_context(req)
        THEN Raise("OutsideRequestContext")
      ELSE IF eng.spcs_auth = caller /\ ~Truthy(caller_token_header(req))
        THEN Raise("MissingCallerToken")
      ELSE spcs_connect(Update(eng.connect_kwargs, ("token" :> token)), e, f, req)


(***************************************************************************)
(* sf_security.py: the connection of the role fetch                        *)
(***************************************************************************)
\* sf_security._read_service_token(): no error is caught, nothing is checked
sf_read_service_token(f) ==
  CASE f.kind = "absent" -> Raise("FileNotFoundError")
    [] f.kind = "denied" -> Raise("PermissionError")
    [] f.kind = "ioerror" -> Raise("OSError")
    [] OTHER -> Ok(Strip(f.content))

\* _snowflake_connect_as_caller(): the kwargs the connector is called with
snowflake_connect_as_caller(e, f, req) ==
  LET st == sf_read_service_token(f)
      kwargs == [k \in {"host", "account", "authenticator", "token"} |->
                   CASE k = "host" -> Getenv(e, "SNOWFLAKE_HOST")
                     [] k = "account" -> Getenv(e, "SNOWFLAKE_ACCOUNT")
                     [] k = "authenticator" -> oauth
                     [] OTHER -> st.value \o <<".">> \o caller_token_header(req)]
  IN  IF ~has_request_context(req) THEN Raise("RoleSyncOutsideRequest")
      ELSE IF ~Truthy(caller_token_header(req)) THEN Raise("MissingCallerToken")
      ELSE IF st.outcome # "ok" THEN Raise(st.outcome)
      ELSE IF Getenv(e, "SNOWFLAKE_HOST") = None \/ Getenv(e, "SNOWFLAKE_ACCOUNT") = None
        THEN Raise("KeyError")
      ELSE spcs_connect(kwargs, e, f, req)

ROLE_PREFIX == <<"B", "I", "_">>
SUPERSET_ROLE_PREFIX == <<"S", "F", "_">>
SYNC_TTL_SECONDS == 300

\* user.last_login of a user that never logged in (None)
NoTime == -1

\* a row of SHOW GRANTS TO USER: created_on, role, granted_to, grantee_name
GrantRow(role) == <<"created_on", role, "USER", "grantee">>

\* row[1], the second column
RoleColumn(row) == row[2]

FetchFailed_leaking(err, q) ==
  [outcome |-> err, value |-> {}, opened |-> 1, closed |-> 0, queries |-> q]

\* an error after the connection was opened: finally closes the connection
FetchFailed(err, q) ==
  [outcome |-> err, value |-> {}, opened |-> 1, closed |-> 1, queries |-> q]

\* the body of _fetch_roles() once the connect call c has returned or raised:
\* rows is what the warehouse answers; fault is the step of the warehouse
\* client that fails, if any.  opened and closed count the connections the
\* call opened and closed, queries the statements it ran.
fetch_roles_on(c, rows, fault) ==
  IF c.outcome # "ok"
    THEN [outcome |-> c.outcome, value |-> {}, opened |-> 0, closed |-> 0, queries |-> 0]
  ELSE IF fault = "connect"
    THEN [outcome |-> "DatabaseError", value |-> {}, opened |-> 0, closed |-> 0, queries |-> 0]
  ELSE IF fault = "cursor" THEN FetchFailed("CursorError", 0)
  ELSE IF fault = "execute" THEN FetchFailed("ProgrammingError", 1)
  ELSE IF fault = "fetchall" THEN FetchFailed("FetchError", 1)
  ELSE [outcome |-> "ok", value |-> {RoleColumn(row) : row \in rows}, opened |-> 1,
        closed |-> 1, queries |-> 1]

\* _fetch_roles()
fetch_roles(e, f, req, rows, fault) ==
  fetch_roles_on(snowflake_connect_as_caller(e, f, req), rows, fault)

fresh_inclusive(cached_at, t) == cached_at # NoTime /\ (t - cached_at) <= SYNC_TTL_SECONDS

\* cached_at and (now - int(cached_at.timestamp())) < SYNC_TTL_SECONDS
fresh(cached_at, t) == cached_at # NoTime /\ (t - cached_at) < SYNC_TTL_SECONDS

swallowed_runtime_errors_only(err) ==
  err \in {"RoleSyncOutsideRequest", "MissingCallerToken"}

\* except Exception: every error of the fetch is caught
swallowed(err) == TRUE

\* the element a loop over the set S visits first
Pick(S) == CHOOSE y \in S : TRUE

RECURSIVE SeqOf(_)
\* the elements of a set in the order the loop visits them
SeqOf(S) == IF S = {} THEN <<>> ELSE <<Pick(S)>> \o SeqOf(S \ {Pick(S)})

Range(q) == {q[i] : i \in 1..Len(q)}

RECURSIVE Filter(_, _)
\* [role for role in roles if role.name not in drop]
Filter(roles, drop) ==
  IF roles = <<>> THEN <<>>
  ELSE IF Head(roles) \in drop THEN Filter(Tail(roles), drop)
  ELSE <<Head(roles)>> \o Filter(Tail(roles), drop)

desired_of_unfiltered(sf_roles) == {SUPERSET_ROLE_PREFIX \o role : role \in sf_roles}

\* the set comprehension of desired
desired_of(sf_roles) ==
  {SUPERSET_ROLE_PREFIX \o role : role \in {r \in sf_roles : StartsWith(r, ROLE_PREFIX)}}

current_of(roles) == {name \in Range(roles) : StartsWith(name, SUPERSET_ROLE_PREFIX)}

\* the login returns the user as it is: no role touched, nothing committed
Untouched(u, committed) ==
  [outcome |-> "ok", roles |-> u.roles, stored |-> committed, fetches |-> 0,
   fetch |-> "none", opened |-> 0, closed |-> 0, queries |-> 0]

reconcile_add_only(u, committed, r) ==
  LET added == u.roles \o SeqOf(desired_of(r.value) \ current_of(u.roles))
  IN  IF r.outcome # "ok"
        THEN [Untouched(u, committed) EXCEPT
                !.fetches = 1, !.fetch = r.outcome, !.opened = r.opened,
                !.closed = r.closed, !.queries = r.queries]
      ELSE [outcome |-> "ok", roles |-> added, stored |-> added, fetches |-> 1, fetch |-> "ok",
            opened |-> r.opened, closed |-> r.closed, queries |-> r.queries]

\* auth_user_remote_user once _fetch_roles() has returned or raised r
reconcile(u, committed, r) ==
  LET desired == desired_of(r.value)
      current == current_of(u.roles)
      added == u.roles \o SeqOf(desired \ current)
      kept == IF current \ desired # {} THEN Filter(added, current \ desired) ELSE added
  IN  IF r.outcome # "ok"
        THEN [Untouched(u, committed) EXCEPT
                !.outcome = IF swallowed(r.outcome) THEN "ok" ELSE r.outcome,
                !.fetches = 1, !.fetch = r.outcome, !.opened = r.opened,
                !.closed = r.closed, !.queries = r.queries]
      ELSE [outcome |-> "ok", roles |-> kept, stored |-> kept, fetches |-> 1, fetch |-> "ok",
            opened |-> r.opened, closed |-> r.closed, queries |-> r.queries]

commit_unconstrained(committed, loaded, roles) ==
  [outcome |-> "ok",
   stored |-> Filter(committed, Range(loaded) \ Range(roles))
                \o SeqOf(Range(roles) \ Range(loaded))]

\* db.session.commit() of a session that loaded the user with the roles
\* loaded and now holds roles, while the database holds committed: the unit
\* of work writes its changes, one row of the user-role table inserted per
\* role appended and one deleted per role dropped.  The table allows a role
\* once per user, and a delete that finds no row fails; a failed commit
\* raises and leaves the database as it was.
commit(committed, loaded, roles) ==
  IF (Range(roles) \ Range(loaded)) \cap Range(committed) # {}
    THEN [outcome |-> "IntegrityError", stored |-> committed]
  ELSE IF ~((Range(loaded) \ Range(roles)) \subseteq Range(committed))
    THEN [outcome |-> "StaleDataError", stored |-> committed]
  ELSE [outcome |-> "ok",
        stored |-> Filter(committed, Range(loaded) \ Range(roles))
                     \o SeqOf(Range(roles) \ Range(loaded))]

\* auth_user_remote_user after super() returned the user u: the roles of the
\* user and the committed roles it leaves, and what the fetch did
sync_roles(u, committed, t, e, f, req, rows, fault) ==
  IF fresh(u.last_login, t) THEN Untouched(u, committed)
  ELSE reconcile(u, committed, fetch_roles(e, f, req, rows, fault))

(***************************************************************************)
(* snowflake_remote_user_middleware.py                                     *)
(***************************************************************************)
Quote == "\""
null == <<"n", "u", "l", "l">>
deny == <<"d", "e", "n", "y">>
create == <<"c", "r", "e", "a", "t", "e">>
identity == <<"i", "d", "e", "n", "t", "i", "t", "y">>
lower == <<"l", "o", "w", "e", "r">>
EmptyObject == <<"{", "}">>

SfUserKey == "HTTP_SF_CONTEXT_CURRENT_USER"
RemoteUserKey == "REMOTE_USER"

RECURSIVE json_members(_, _)
\* the text s after a member of the object: "," and more members, or "}"
json_next(s, acc) ==
  IF s = <<"}">> THEN Ok(acc)
  ELSE IF s # <<>> /\ Head(s) = "," THEN json_members(Tail(s), acc)
  ELSE Raise("JSONDecodeError")

\* the value v of the member key: null or a string
json_entry(key, v, acc) ==
  IF StartsWith(v, null) THEN json_next(SubSeq(v, 5, Len(v)), Update(acc, (key :> None)))
  ELSE IF v # <<>> /\ Head(v) = Quote /\ FirstIndex(Tail(v), Quote) # 0
    THEN json_next(SubSeq(v, FirstIndex(Tail(v), Quote) + 2, Len(v)),
                   Update(acc, (key :> SubSeq(v, 2, FirstIndex(Tail(v), Quote)))))
  ELSE Raise("JSONDecodeError")

\* the member whose key ends at the quote at position k of Tail(s)
json_member(s, k, acc) ==
  IF k + 2 > Len(s) \/ s[k + 1 + 1] # ":" THEN Raise("JSONDecodeError")
  ELSE json_entry(SubSeq(s, 2, k), SubSeq(s, k + 3, Len(s)), acc)

\* the members of an object, s being the text after "{" or ","
json_members(s, acc) ==
  IF s = <<>> \/ Head(s) # Quote \/ FirstIndex(Tail(s), Quote) = 0
    THEN Raise("JSONDecodeError")
  ELSE json_member(s, FirstIndex(Tail(s), Quote), acc)

\* json.loads(text) for the texts SF_SUPERSET_USER_MAP is given: an object
\* of string keys whose values are strings or null, written without white
\* space inside and without escapes; any other text is a decode error here
json_loads(text) ==
  IF Strip(text) = EmptyObject THEN Ok(EmptyDict)
  ELSE IF Strip(text) # <<>> /\ Head(Strip(text)) = "{"
    THEN json_members(Tail(Strip(text)), EmptyDict)
  ELSE Raise("JSONDecodeError")

\* SnowflakeRemoteUserMiddleware.__init__: the environment is read once
middleware_init(e) ==
  IF json_loads(GetenvOr(e, "SF_SUPERSET_USER_MAP", EmptyObject)).outcome # "ok"
    THEN Raise("JSONDecodeError")
  ELSE Ok([built |-> TRUE,
           map |-> json_loads(GetenvOr(e, "SF_SUPERSET_USER_MAP", EmptyObject)).value,
           default_policy |-> GetenvOr(e, "SF_USER_UNMAPPED_POLICY", create),
           fallback_user |-> Getenv(e, "SF_FAKE_REMOTE_USER")])

resolve_user_policy_ignored(mw, sf_user, e) ==
  IF Upper(sf_user) \in DOMAIN mw.map THEN mw.map[Upper(sf_user)]
  ELSE IF GetenvOr(e, "SF_USERNAME_NORMALIZER", lower) = identity THEN sf_user
  ELSE Lower(sf_user)

resolve_user_exact_key(mw, sf_user, e) ==
  IF sf_user \in DOMAIN mw.map THEN mw.map[sf_user]
  ELSE IF Lower(mw.default_policy) = deny THEN None
  ELSE IF GetenvOr(e, "SF_USERNAME_NORMALIZER", lower) = identity THEN sf_user
  ELSE Lower(sf_user)

\* SnowflakeRemoteUserMiddleware._resolve_user(sf_user)
resolve_user(mw, sf_user, e) ==
  IF Upper(sf_user) \in DOMAIN mw.map THEN mw.map[Upper(sf_user)]
  ELSE IF Lower(mw.default_policy) = deny THEN None
  ELSE IF GetenvOr(e, "SF_USERNAME_NORMALIZER", lower) = identity THEN sf_user
  ELSE Lower(sf_user)

Forbidden ==
  [status |-> "403 Forbidden", body |-> "Superset access denied: user mapping missing"]

\* the request goes to the wrapped application with the environ given
Downstream(environ) == [status |-> "downstream", downstream |-> TRUE, environ |-> environ]

\* the request is answered by the middleware itself
Answered(response, environ) ==
  [status |-> response.status, downstream |-> FALSE, environ |-> environ]

\* __call__ once sf_user is known
call_as(mw, sf_user, environ, e) ==
  IF ~Truthy(sf_user) THEN Downstream(environ)
  ELSE IF resolve_user(mw, sf_user, e) = None THEN Answered(Forbidden, environ)
  ELSE Downstream(Update(environ, (RemoteUserKey :> resolve_user(mw, sf_user, e))))

\* SnowflakeRemoteUserMiddleware.__call__(environ, start_response)
middleware_call(mw, environ, e) ==
  call_as(mw, Or(Get(environ, SfUserKey), mw.fallback_user), environ, e)

(***************************************************************************)
(* Bounds and input sets                                                   *)
(***************************************************************************)
MaxConns == 2
MaxRequests == 2

svc123 == <<"s", "v", "c", "1", "2", "3">>
svc456 == <<"s", "v", "c", "4", "5", "6">>
usrABC == <<"u", "s", "r", "A", "B", "C">>
usrXYZ == <<"u", "s", "r", "X", "Y", "Z">>
acme == <<"a", "c", "m", "e">>

File(kind, content) == [kind |-> kind, content |-> content]

TokenFiles ==
  {File("absent", <<>>), File("ok", <<" ", "\n">>),
   File("ok", <<" ">> \o svc123 \o <<"\n">>), File("ok", svc456)}

NoRequest == [ctx |-> FALSE, id |-> 0, headers |-> EmptyDict]

HeaderSets == {EmptyDict, (CallerHeader :> usrABC), (CallerHeader :> usrXYZ)}

BaseEnv == [k \in EnvNames |-> None]

EnvWith(e, k, v) == [e EXCEPT ![k] = v]

AcmeEnv ==
  EnvWith(EnvWith(BaseEnv, "SNOWFLAKE_ACCOUNT", acme), "SNOWFLAKE_HOST",
          acme \o SnowflakeDomain)

SpecEnvs == {AcmeEnv, EnvWith(AcmeEnv, "SPCS_SNOWFLAKE_AUTH", caller)}

Uri(database, query) == [database |-> database, query |-> query]

Caller_Capitalised == <<"C", "a", "l", "l", "e", "r">>

SpecUris == {Uri(None, EmptyDict), Uri(None, ("spcs_auth" :> Caller_Capitalised))}

SpecConnectArgs == {("token" :> usrXYZ) @@ ("client_session_keep_alive" :> One)}

SpecEngineKwargs == {EmptyDict, ("poolclass" :> "QueuePool")}

DirectKwargs ==
  {("user" :> <<"b", "o", "b">>) @@ ("password" :> <<"p", "w">>) @@ ("account" :> acme),
   ("authenticator" :> oauth) @@ ("token" :> usrXYZ)}

(***************************************************************************)
(* State machine of the engine, its pool and the token file.  ret is the   *)
(* call in progress: what was called and what it returned, raised and      *)
(* logged; the token file and the request stay as the call saw them until  *)
(* it returns.  engine is the engine under study, conns the physical       *)
(* connections of its pool that are open.                                  *)
(***************************************************************************)
NoCall == [op |-> "none"]

NoEngine == [alive |-> FALSE]

\* the WSGI middleware is not constructed
NoMiddleware == [built |-> FALSE]

Call(op, args, r) ==
  [op |-> op, args |-> args, outcome |-> r.outcome, value |-> r.value,
   logged |-> IF "logged" \in DOMAIN r THEN r.logged ELSE <<>>]

\* no database session is open
NoSessions == <<>>

\* no user logs in: the role sync is at rest, no middleware is installed
SyncIdle ==
  /\ now = 0
  /\ user = [name |-> None, active |-> FALSE, roles |-> <<>>, last_login |-> NoTime]
  /\ grants = {}
  /\ link = 0
  /\ sessions = NoSessions
  /\ stored = <<>>
  /\ middleware = NoMiddleware

Init ==
  /\ env \in SpecEnvs
  /\ tokenFile \in TokenFiles
  /\ request = NoRequest
  /\ engine = NoEngine
  /\ conns = <<>>
  /\ ret = NoCall
  /\ SyncIdle

\* the platform rewrites (or removes) the token file
RewriteTokenFile(f) ==
  /\ ret = NoCall
  /\ f # tokenFile
  /\ tokenFile' = f
  /\ UNCHANGED <<env, request, engine, conns, ret, syncVars, middleware>>

\* a request arrives at the worker with its headers
BeginRequest(h) ==
  /\ ret = NoCall
  /\ ~request.ctx
  /\ request.id < MaxRequests
  /\ request' = [ctx |-> TRUE, id |-> request.id + 1, headers |-> h]
  /\ UNCHANGED <<env, tokenFile, engine, conns, ret, syncVars, middleware>>

\* the request ends after its connections were released
EndRequest ==
  /\ ret = NoCall
  /\ request.ctx
  /\ \A c \in 1..Len(conns) : ~(conns[c].state = "out" /\ conns[c].holder = request.id)
  /\ request' = [request EXCEPT !.ctx = FALSE, !.headers = EmptyDict]
  /\ UNCHANGED <<env, tokenFile, engine, conns, ret, syncVars, middleware>>

GetSqlalchemyEngine(uri, connect_args, kwargs) ==
  LET r == get_sqlalchemy_engine(uri, connect_args, kwargs, env, tokenFile, request)
  IN  /\ ret = NoCall
      /\ ~engine.alive
      /\ engine' = IF r.outcome = "ok" THEN r.value ELSE engine
      /\ ret' = Call("get_sqlalchemy_engine",
                     [uri |-> uri, connect_args |-> connect_args, kwargs |-> kwargs], r)
      /\ UNCHANGED <<env, tokenFile, request, conns, syncVars, middleware>>

\* engine.dispose(): the engine and the idle connections of its pool go
Dispose ==
  /\ ret = NoCall
  /\ engine.alive
  /\ \A c \in 1..Len(conns) : conns[c].state = "idle"
  /\ engine' = NoEngine
  /\ conns' = <<>>
  /\ UNCHANGED <<env, tokenFile, request, ret, syncVars, middleware>>

\* the pool class the engine was created with (QueuePool unless overridden)
poolclass_of(eng) ==
  IF "poolclass" \in DOMAIN eng.kwargs THEN eng.kwargs["poolclass"] ELSE "QueuePool"

Holder == IF request.ctx THEN request.id ELSE 0

Idle == {c \in 1..Len(conns) : conns[c].state = "idle"}

\* a checkout that the pool serves with an idle connection
CheckoutPooled(c) ==
  /\ ret = NoCall
  /\ engine.alive /\ engine.brokered
  /\ poolclass_of(engine) # "NullPool"
  /\ c \in Idle
  /\ conns' = [conns EXCEPT ![c].state = "out", ![c].holder = Holder, ![c].reused = TRUE]
  /\ ret' = Call("checkout", [conn |-> c], Ok(None))
  /\ UNCHANGED <<env, tokenFile, request, engine, syncVars, middleware>>

\* a checkout that needs a new physical connection: the pool calls creator()
CheckoutNew ==
  LET r == creator(engine, env, tokenFile, request)
  IN  /\ ret = NoCall
      /\ engine.alive /\ engine.brokered
      /\ poolclass_of(engine) = "NullPool" \/ Idle = {}
      /\ Len(conns) < MaxConns
      /\ conns' = IF r.outcome = "ok"
                  THEN Append(conns, [state |-> "out", madeIn |-> Holder, holder |-> Holder,
                                      reused |-> FALSE])
                  ELSE conns
      /\ ret' = Call("creator", EmptyDict, r)
      /\ UNCHANGED <<env, tokenFile, request, engine, syncVars, middleware>>

RemoveAt(s, i) == SubSeq(s, 1, i - 1) \o SubSeq(s, i + 1, Len(s))

\* the connection goes back to its pool; NullPool closes it
Release(c) ==
  /\ ret = NoCall
  /\ conns[c].state = "out"
  /\ conns' = IF poolclass_of(engine) = "NullPool" THEN RemoveAt(conns, c)
              ELSE [conns EXCEPT ![c].state = "idle", ![c].holder = 0]
  /\ UNCHANGED <<env, tokenFile, request, engine, ret, syncVars, middleware>>

\* the pool drops an idle connection (pool_recycle age, failed pre-ping)
Recycle(c) ==
  /\ ret = NoCall
  /\ conns[c].state = "idle"
  /\ conns' = RemoveAt(conns, c)
  /\ UNCHANGED <<env, tokenFile, request, engine, ret, syncVars, middleware>>

\* any other caller of snowflake.connector.connect(**kwargs), through the patch
DirectConnect(kwargs) ==
  /\ ret = NoCall
  /\ ret' = Call("connect", [kwargs |-> kwargs], spcs_connect(kwargs, env, tokenFile, request))
  /\ UNCHANGED <<env, tokenFile, request, engine, conns, syncVars, middleware>>

\* the role fetch opens its connection (sf_security._fetch_roles)
RoleFetchConnect ==
  /\ ret = NoCall
  /\ ret' = Call("role_connect", EmptyDict, snowflake_connect_as_caller(env, tokenFile, request))
  /\ UNCHANGED <<env, tokenFile, request, engine, conns, syncVars, middleware>>

\* the call returns to its caller
Return ==
  /\ ret # NoCall
  /\ ret' = NoCall
  /\ UNCHANGED <<env, tokenFile, request, engine, conns, syncVars, middleware>>

Next ==
  \/ \E f \in TokenFiles : RewriteTokenFile(f)
  \/ \E h \in HeaderSets : BeginRequest(h)
  \/ EndRequest
  \/ \E uri \in SpecUris, ca \in SpecConnectArgs, kw \in SpecEngineKwargs :
       GetSqlalchemyEngine(uri, ca, kw)
  \/ Dispose
  \/ \E c \in 1..Len(conns) : CheckoutPooled(c)
  \/ CheckoutNew
  \/ \E c \in 1..Len(conns) : Release(c)
  \/ \E c \in 1..Len(conns) : Recycle(c)
  \/ \E kw \in DirectKwargs : DirectConnect(kw)
  \/ RoleFetchConnect
  \/ Return

Spec == Init /\ [][Next]_vars


(***************************************************************************)
(* Claims on the engine, its pool and the connection paths (Spec)          *)
(***************************************************************************)
CreatorReturned == ret.op = "creator" /\ ret.outcome = "ok"

\* the token file as the call in progress read it, trimmed
TrimmedFile == Strip(tokenFile.content)

\* C1: whenever creator() opens a physical connection, the service-token
\* part of the credential it passes is the trimmed content the token file has
\* at that moment, whatever the file held when the engine was created or
\* when an earlier connection was opened.
C1_FreshServiceToken ==
  CreatorReturned =>
    /\ tokenFile.kind = "ok"
    /\ StartsWith(ret.value["token"], TrimmedFile)
    /\ \/ Len(ret.value["token"]) = Len(TrimmedFile)
       \/ ret.value["token"][Len(TrimmedFile) + 1] = "."

\* a connection is created after the file was rewritten since the engine was
\* created, while an earlier connection of the engine is still open
C1_Witness ==
  /\ CreatorReturned
  /\ engine.token # TrimmedFile
  /\ Len(conns) = 2

svc123_usrABC == <<"s", "v", "c", "1", "2", "3", ".", "u", "s", "r", "A", "B", "C">>

\* C2: the credential creator() mints is the service token in service mode
\* and serviceToken.callerToken in caller mode, the caller token being the
\* header of the request that is current when the connection is created;
\* svc123 and usrABC give svc123.usrABC.
C2_MintedCredential ==
  CreatorReturned =>
    /\ engine.spcs_auth # caller => ret.value["token"] = TrimmedFile
    /\ engine.spcs_auth = caller =>
         /\ request.ctx
         /\ ret.value["token"] = TrimmedFile \o <<".">> \o request.headers[CallerHeader]
    /\ (engine.spcs_auth = caller /\ TrimmedFile = svc123
          /\ Get(request.headers, CallerHeader) = usrABC) =>
         ret.value["token"] = svc123_usrABC

C2_Witness == CreatorReturned /\ ret.value["token"] = svc123_usrABC

\* C4: an engine created in caller mode has pooling disabled whatever
\* engine kwargs were supplied: none of its connections is ever idle in a
\* pool, served to a second checkout or held by a request other than the one
\* whose caller token it was minted with.
C4_CallerNeverPooled ==
  (engine.alive /\ engine.brokered /\ engine.spcs_auth = caller) =>
    /\ poolclass_of(engine) = "NullPool"
    /\ \A c \in 1..Len(conns) :
         /\ conns[c].state = "out"
         /\ ~conns[c].reused
         /\ conns[c].holder = conns[c].madeIn

\* the second request holds a connection of a caller-mode engine that was
\* made in that request, next to nothing left over from the first request
C4_Witness ==
  /\ engine.alive /\ engine.brokered /\ engine.spcs_auth = caller
  /\ request.ctx /\ request.id = 2
  /\ Len(conns) = 2
  /\ \A c \in 1..Len(conns) : conns[c].madeIn = 2

\* the call in progress opens a connection in caller mode
CallerModeCall ==
  \/ ret.op = "creator" /\ engine.spcs_auth = caller
  \/ ret.op = "connect" /\ Lower(GetenvOr(env, "SPCS_SNOWFLAKE_AUTH", service)) = caller
  \/ ret.op = "role_connect"

CallerTokenAvailable == request.ctx /\ Truthy(Get(request.headers, CallerHeader))

\* C6: in caller mode without a caller token (no request context, or no
\* header) no connection path opens a warehouse connection with the
\* service-only token: creator(), the patched connect, the role fetch.
C6_NoSilentDegrade ==
  (CallerModeCall /\ ~CallerTokenAvailable /\ ret.outcome = "ok") =>
    Get(ret.value, "token") # TrimmedFile


(***************************************************************************)
(* Engine creation and parameter resolution over their inputs (SpecCreate) *)
(***************************************************************************)
\* _get_connect_kwargs called on its own (get_sqla_engine callers, tests)
GetConnectKwargs(uri, connect_args) ==
  /\ ret = NoCall
  /\ ret' = Call("_get_connect_kwargs", [uri |-> uri, connect_args |-> connect_args],
                 get_connect_kwargs(uri, connect_args, env, request))
  /\ UNCHANGED <<env, tokenFile, request, engine, conns, syncVars, middleware>>

CreateEnvs ==
  {EnvWith(EnvWith(EnvWith(BaseEnv, "SNOWFLAKE_ACCOUNT", a), "SPCS_SNOWFLAKE_AUTH", m),
           "SPCS_SNOWFLAKE_DEBUG", d) :
     a \in {None, acme}, m \in {None, caller}, d \in {None, One}}
  \cup {EnvWith(AcmeEnv, "SPCS_SNOWFLAKE_POOL_RECYCLE", <<"6", "0">>),
        EnvWith(AcmeEnv, "SPCS_SNOWFLAKE_POOL_RECYCLE", <<"1", "h">>)}

CreateFiles ==
  {File("absent", <<>>), File("denied", <<>>), File("ioerror", <<>>), File("ok", <<"\n">>),
   File("ok", svc123 \o <<"\n">>)}

CreateRequests ==
  {NoRequest} \cup
  {[ctx |-> TRUE, id |-> 1, headers |-> h] :
     h \in {EmptyDict, (CallerHeader :> <<>>), (CallerHeader :> usrABC)}}

CreateUris ==
  {Uri(None, EmptyDict), Uri(None, ("spcs_auth" :> Caller_Capitalised)),
   Uri(None, ("spcs_auth" :> service))}

CreateConnectArgs == {EmptyDict, ("token" :> usrXYZ) @@ ("client_session_keep_alive" :> One)}

InitCreate ==
  /\ env \in CreateEnvs
  /\ tokenFile \in CreateFiles
  /\ request \in CreateRequests
  /\ engine = NoEngine
  /\ conns = <<>>
  /\ ret = NoCall
  /\ SyncIdle

NextCreate ==
  \/ \E uri \in CreateUris, ca \in CreateConnectArgs : GetConnectKwargs(uri, ca)
  \/ \E uri \in CreateUris, ca \in CreateConnectArgs, kw \in SpecEngineKwargs :
       GetSqlalchemyEngine(uri, ca, kw)
  \/ Dispose
  \/ CheckoutNew
  \/ \E c \in 1..Len(conns) : Release(c)
  \/ Return

SpecCreate == InitCreate /\ [][NextCreate]_vars

EngineCall == ret.op = "get_sqlalchemy_engine"

\* C3: with the token file missing when get_sqlalchemy_engine runs, the
\* call returns a plain engine on the URI and connect_args it was given, with
\* the engine kwargs as given, no creator, no resolved parameters and no log
\* record, whatever the debug flag and the auth mode are.
C3_AbsentTokenPlainEngine ==
  (EngineCall /\ tokenFile.kind = "absent") =>
    /\ ret.outcome = "ok"
    /\ ret.logged = <<>>
    /\ engine.alive /\ engine = ret.value
    /\ ~engine.brokered /\ ~engine.creator
    /\ engine.url = ret.args.uri
    /\ engine.connect_args = ret.args.connect_args
    /\ engine.kwargs = ret.args.kwargs
    /\ engine.connect_kwargs = EmptyDict

\* the file is missing while the debug flag is on, caller mode is selected
\* outside a request and no account could be resolved
C3_Witness ==
  /\ EngineCall /\ tokenFile.kind = "absent"
  /\ env["SPCS_SNOWFLAKE_DEBUG"] = One
  /\ env["SPCS_SNOWFLAKE_AUTH"] = caller
  /\ env["SNOWFLAKE_ACCOUNT"] = None
  /\ ~request.ctx
  /\ "poolclass" \in DOMAIN ret.args.kwargs

\* the auth mode the URI and the environment select
SelectedMode(uri) ==
  LET q == Get(uri.query, "spcs_auth")
      d == IF env["SPCS_SNOWFLAKE_AUTH"] = None THEN service ELSE env["SPCS_SNOWFLAKE_AUTH"]
  IN  Lower(IF q # None /\ q # <<>> THEN q ELSE d)

\* the call in progress resolves connection parameters in caller mode
ResolvesInCallerMode ==
  /\ \/ ret.op = "_get_connect_kwargs"
     \/ EngineCall /\ tokenFile.kind = "ok" /\ Strip(tokenFile.content) # <<>>
  /\ SelectedMode(ret.args.uri) = caller

AccountVarsEmpty ==
  \A i \in 1..Len(ACCOUNT_ENV_CANDIDATES) :
    env[ACCOUNT_ENV_CANDIDATES[i]] \in {None, <<>>}

\* C5 as claimed: caller-mode resolution without a request context always
\* fails with MissingCallerContext, and with a context but no caller-token
\* header always with MissingCallerToken.
C5_Original ==
  ResolvesInCallerMode =>
    /\ ~request.ctx => ret.outcome = "MissingCallerContext"
    /\ (request.ctx /\ ~Truthy(Get(request.headers, CallerHeader))) =>
         ret.outcome = "MissingCallerToken"

\* C5 (amended): caller-mode resolution without a request context, or with
\* one but no caller-token header, fails at resolve time, returns no
\* parameter set and creates no engine; the error is MissingCallerContext,
\* respectively MissingCallerToken, unless no account can be resolved, in
\* which case MissingAccount is raised first.
C5_CallerValidatedAtResolve ==
  (ResolvesInCallerMode /\ ~CallerTokenAvailable) =>
    /\ ret.value = None
    /\ EngineCall => ~engine.alive
    /\ ret.outcome =
         IF AccountVarsEmpty /\ env["SNOWFLAKE_HOST"] = None THEN "MissingAccount"
         ELSE IF ~request.ctx THEN "MissingCallerContext"
         ELSE "MissingCallerToken"

\* engine creation in caller mode, inside a request without the header
C5_Witness ==
  /\ EngineCall /\ ResolvesInCallerMode
  /\ request.ctx
  /\ ret.outcome = "MissingCallerToken"

(***************************************************************************)
(* Database and schema precedence (SpecDb)                                 *)
(***************************************************************************)
pdb == <<"p", "d", "b">>
psc == <<"p", "s", "c">>
qdb == <<"q", "d", "b">>
qsc == <<"q", "s", "c">>
edb == <<"e", "d", "b">>
esc == <<"e", "s", "c">>
adb == <<"a", "d", "b">>

DbEnvs ==
  {EnvWith(EnvWith(AcmeEnv, "SNOWFLAKE_DATABASE", d), "SNOWFLAKE_SCHEMA", c) :
     d \in {None, edb}, c \in {None, esc}}

DbPaths ==
  {None, pdb, pdb \o <<"/">> \o psc, <<"/">> \o psc, pdb \o <<"/">>, <<"/">>,
   pdb \o <<"/">> \o psc \o <<"/">> \o psc}

DbQueries ==
  {EmptyDict, ("database" :> qdb), ("schema" :> qsc), ("database" :> qdb) @@ ("schema" :> qsc),
   ("database" :> <<>>) @@ ("schema" :> qsc)}

DbUris == {Uri(path, q) : path \in DbPaths, q \in DbQueries}

DbConnectArgs == {EmptyDict, ("database" :> adb), ("token" :> usrXYZ) @@ ("schema" :> <<>>)}

InitDb ==
  /\ env \in DbEnvs
  /\ tokenFile = File("ok", svc123)
  /\ request = NoRequest
  /\ engine = NoEngine
  /\ conns = <<>>
  /\ ret = NoCall
  /\ SyncIdle

NextDb ==
  \/ \E uri \in DbUris, ca \in DbConnectArgs : GetConnectKwargs(uri, ca)
  \/ Return

SpecDb == InitDb /\ [][NextDb]_vars

\* the text of the path before its first "/" and the text after it
PathDatabase(path) ==
  IF path = None THEN None
  ELSE IF \E i \in 1..Len(path) : path[i] = "/"
    THEN LET k == CHOOSE i \in 1..Len(path) :
                    path[i] = "/" /\ \A j \in 1..(i - 1) : path[j] # "/"
         IN  [i \in 1..(k - 1) |-> path[i]]
  ELSE path

PathSchema(path) ==
  IF path = None THEN None
  ELSE IF \E i \in 1..Len(path) : path[i] = "/"
    THEN LET k == CHOOSE i \in 1..Len(path) :
                    path[i] = "/" /\ \A j \in 1..(i - 1) : path[j] # "/"
         IN  [i \in 1..(Len(path) - k) |-> path[k + i]]
  ELSE None

Given(v) == v # None /\ v # <<>>

\* path before query before environment; None when none of them gives it
ByPrecedence(fromPath, fromQuery, fromEnv) ==
  IF Given(fromPath) THEN fromPath
  ELSE IF Given(fromQuery) THEN fromQuery
  ELSE IF Given(fromEnv) THEN fromEnv
  ELSE None

ExpectedDatabase ==
  ByPrecedence(PathDatabase(ret.args.uri.database), Get(ret.args.uri.query, "database"),
               env["SNOWFLAKE_DATABASE"])

ExpectedSchema ==
  ByPrecedence(PathSchema(ret.args.uri.database), Get(ret.args.uri.query, "schema"),
               env["SNOWFLAKE_SCHEMA"])

ResolveReturned == ret.op = "_get_connect_kwargs" /\ ret.outcome = "ok"

\* C7 as claimed: the returned database and schema are, each on its own, the
\* value of the URI path, else of the URI query, else of the environment.
C7_Original ==
  ResolveReturned =>
    /\ Get(ret.value, "database") = ExpectedDatabase
    /\ Get(ret.value, "schema") = ExpectedSchema

\* C7 (amended): the returned database and schema are, each on its own, the
\* value of the URI path, else of the URI query, else of the environment,
\* unless connect_args carries an entry of that name, which is returned
\* instead.
C7_PathQueryEnvPrecedence ==
  ResolveReturned =>
    /\ Get(ret.value, "database") =
         IF "database" \in DOMAIN ret.args.connect_args
         THEN ret.args.connect_args["database"] ELSE ExpectedDatabase
    /\ Get(ret.value, "schema") =
         IF "schema" \in DOMAIN ret.args.connect_args
         THEN ret.args.connect_args["schema"] ELSE ExpectedSchema

\* the path gives the database only, the query and the environment give
\* both: the database comes from the path, the schema from the query
C7_Witness ==
  /\ ResolveReturned
  /\ ret.args.uri.database = pdb
  /\ Get(ret.args.uri.query, "database") = qdb
  /\ Get(ret.args.uri.query, "schema") = qsc
  /\ env["SNOWFLAKE_DATABASE"] = edb /\ env["SNOWFLAKE_SCHEMA"] = esc
  /\ ret.args.connect_args = EmptyDict
  /\ ret.value["database"] = pdb /\ ret.value["schema"] = qsc

(***************************************************************************)
(* Account and host resolution (SpecAccount)                               *)
(***************************************************************************)
AccountValue ==
  [k \in {"SNOWFLAKE_ACCOUNT", "SNOWFLAKE_ACCOUNT_NAME", "SNOWFLAKE_ACCOUNT_IDENTIFIER",
          "SNOWFLAKE_ACCOUNT_LOCATOR"} |->
     CASE k = "SNOWFLAKE_ACCOUNT" -> <<"a", "1">>
       [] k = "SNOWFLAKE_ACCOUNT_NAME" -> <<"a", "2">>
       [] k = "SNOWFLAKE_ACCOUNT_IDENTIFIER" -> <<"a", "3">>
       [] OTHER -> <<"a", "4">>]

AccountChoices(k) == {None, <<>>, AccountValue[k]}

\* a host written as [scheme] X.snowflakecomputing.com [:port] [/path]
HostForms ==
  [scheme : {<<>>, Https, Http}, x : {acme, <<"o", "r", "g", "-", "a", "c", "c", "t">>},
   port : {<<>>, <<":", "4", "4", "3">>}, path : {<<>>, <<"/", "c", "o", "n", "s", "o", "l", "e">>}]

Render(form) == form.scheme \o form.x \o SnowflakeDomain \o form.port \o form.path

OtherHosts ==
  {None, <<>>, <<" ", " ">>, SnowflakeDomain, acme \o PrivateLinkDomain,
   <<"e", "x", "a", "m", "p", "l", "e", ".", "o", "r", "g">>, Https,
   <<" ">> \o Https \o acme \o SnowflakeDomain \o <<"\n">>}

AccountEnvs ==
  {[k \in EnvNames |->
      CASE k = "SNOWFLAKE_ACCOUNT" -> a1 [] k = "SNOWFLAKE_ACCOUNT_NAME" -> a2
        [] k = "SNOWFLAKE_ACCOUNT_IDENTIFIER" -> a3 [] k = "SNOWFLAKE_ACCOUNT_LOCATOR" -> a4
        [] k = "SNOWFLAKE_HOST" -> h [] OTHER -> None] :
     a1 \in AccountChoices("SNOWFLAKE_ACCOUNT"), a2 \in AccountChoices("SNOWFLAKE_ACCOUNT_NAME"),
     a3 \in AccountChoices("SNOWFLAKE_ACCOUNT_IDENTIFIER"),
     a4 \in AccountChoices("SNOWFLAKE_ACCOUNT_LOCATOR"),
     h \in {Render(form) : form \in HostForms} \cup OtherHosts}

InitAccount ==
  /\ env \in AccountEnvs
  /\ tokenFile = File("ok", svc123)
  /\ request = NoRequest
  /\ engine = NoEngine
  /\ conns = <<>>
  /\ ret = NoCall
  /\ SyncIdle

NextAccount ==
  \/ GetConnectKwargs(Uri(None, EmptyDict), EmptyDict)
  \/ Return

SpecAccount == InitAccount /\ [][NextAccount]_vars

ResolveCalled == ret.op = "_get_connect_kwargs"

\* the position of the first account variable that is set and not empty
FirstAccountVar ==
  CHOOSE i \in 1..Len(ACCOUNT_ENV_CANDIDATES) :
    /\ Given(env[ACCOUNT_ENV_CANDIDATES[i]])
    /\ \A j \in 1..(i - 1) : ~Given(env[ACCOUNT_ENV_CANDIDATES[j]])

\* C8: with no account variable set and no host, resolution fails with
\* MissingAccount; with only a host [scheme]X.snowflakecomputing.com[:port][/path]
\* the account is X; with account variables set the first non-empty one in
\* the fixed order is the account; a returned parameter set never has an
\* empty host or account.
C8_AccountResolution ==
  ResolveCalled =>
    /\ (AccountVarsEmpty /\ env["SNOWFLAKE_HOST"] \in {None, <<>>}) =>
         ret.outcome = "MissingAccount"
    /\ \A form \in HostForms :
         (AccountVarsEmpty /\ env["SNOWFLAKE_HOST"] = Render(form)) =>
           ret.outcome = "ok" /\ ret.value["account"] = form.x
    /\ ~AccountVarsEmpty =>
         /\ ret.outcome = "ok"
         /\ ret.value["account"] = env[ACCOUNT_ENV_CANDIDATES[FirstAccountVar]]
    /\ ret.outcome = "ok" =>
         /\ Given(Get(ret.value, "host"))
         /\ Given(Get(ret.value, "account"))

\* only a host is configured, with scheme, port and path, and the account is
\* read off it
C8_Witness ==
  /\ ResolveCalled /\ AccountVarsEmpty
  /\ env["SNOWFLAKE_HOST"] =
       Https \o acme \o SnowflakeDomain \o <<":", "4", "4", "3", "/", "c", "o", "n", "s", "o", "l", "e">>
  /\ ret.outcome = "ok" /\ ret.value["account"] = acme
  /\ ret.value["host"] = acme \o SnowflakeDomain


(***************************************************************************)
(* Role sync at login (SpecSync)                                           *)
(***************************************************************************)
MaxTime == 600

BI_X == <<"B", "I", "_", "X">>
BI_Y == <<"B", "I", "_", "Y">>
PUBLIC == <<"P", "U", "B", "L", "I", "C">>
Gamma == <<"G", "a", "m", "m", "a">>
Role_SF_BI_X == <<"S", "F", "_", "B", "I", "_", "X">>
Role_SF_OLD == <<"S", "F", "_", "O", "L", "D">>
alice == <<"a", "l", "i", "c", "e">>
mallory == <<"m", "a", "l", "l", "o", "r", "y">>

SyncEnvs == {AcmeEnv, EnvWith(AcmeEnv, "SNOWFLAKE_HOST", None)}

SyncFiles == {File("absent", <<>>), File("denied", <<>>), File("ok", svc123 \o <<"\n">>)}

SyncRequests ==
  {NoRequest, [ctx |-> TRUE, id |-> 1, headers |-> EmptyDict],
   [ctx |-> TRUE, id |-> 1, headers |-> (CallerHeader :> usrABC)]}

SyncGrants == {{}, {BI_X, PUBLIC}, {BI_X, BI_Y}}

SyncRoles ==
  {<<Gamma>>, <<Gamma, Role_SF_BI_X>>, <<Role_SF_OLD, Gamma>>,
   <<Role_SF_OLD, Gamma, Role_SF_BI_X>>}

Faults == {"none", "connect", "cursor", "execute", "fetchall"}

TickSeconds == {100, 200}

InitSync ==
  /\ env \in SyncEnvs
  /\ tokenFile \in SyncFiles
  /\ request \in SyncRequests
  /\ engine = NoEngine
  /\ conns = <<>>
  /\ ret = NoCall
  /\ now = 0
  /\ \E roles \in SyncRoles, active \in BOOLEAN :
       /\ user = [name |-> alice, active |-> active, roles |-> roles, last_login |-> NoTime]
       /\ stored = roles
  /\ grants \in SyncGrants
  /\ link = 0
  /\ sessions = NoSessions
  /\ middleware = NoMiddleware

\* time passes
Tick(d) ==
  /\ ret = NoCall
  /\ now + d <= MaxTime
  /\ now' = now + d
  /\ UNCHANGED <<env, tokenFile, request, engine, conns, ret, user, grants, link, stored,
               middleware, sessions>>

\* SnowflakeSyncedSecurityManager.auth_user_remote_user(username).  The base
\* class finds the user (None for an unknown or inactive one) and may stamp
\* user.last_login with the time of the login.
AuthUserRemoteUser(username, stamp, fault) ==
  /\ ret = NoCall
  /\ IF ~(username = user.name /\ user.active)
     THEN /\ ret' = Call("auth_user_remote_user",
                         [username |-> username, before |-> user.roles, stored |-> stored,
                          last_login |-> user.last_login,
                          fetches |-> 0, fetch |-> "none", queries |-> 0], Ok(None))
          /\ UNCHANGED <<user, stored, link>>
     ELSE \E u \in {IF stamp THEN [user EXCEPT !.last_login = now] ELSE user} :
            \E r \in {sync_roles(u, stored, now, env, tokenFile, request,
                                 {GrantRow(g) : g \in grants}, fault)} :
              /\ user' = [u EXCEPT !.roles = r.roles]
              /\ stored' = r.stored
              /\ link' = link + r.opened - r.closed
              /\ ret' = Call("auth_user_remote_user",
                             [username |-> username, before |-> user.roles,
                              stored |-> stored, last_login |-> user.last_login,
                              fetches |-> r.fetches, fetch |-> r.fetch,
                              queries |-> r.queries],
                             IF r.outcome = "ok" THEN Ok(username) ELSE Raise(r.outcome))
  /\ UNCHANGED <<env, tokenFile, request, engine, conns, now, grants, middleware, sessions>>

\* the call returns to its caller
ReturnSync ==
  /\ ret # NoCall
  /\ ret' = NoCall
  /\ UNCHANGED <<env, tokenFile, request, engine, conns, syncVars, middleware>>

NextSync ==
  \/ \E d \in TickSeconds : Tick(d)
  \/ \E username \in {alice, mallory}, stamp \in BOOLEAN, fault \in Faults :
       AuthUserRemoteUser(username, stamp, fault)
  \/ ReturnSync

SpecSync == InitSync /\ [][NextSync]_vars

\* a login of a known, active user is in progress
LoginOfUser == ret.op = "auth_user_remote_user" /\ ret.args.username = user.name /\ user.active

C10_FetchFailureSwallowed ==
  (LoginOfUser /\ ret.args.fetches = 1 /\ ret.args.fetch # "ok") =>
    /\ ret.outcome = "ok"
    /\ ret.value = user.name
    /\ user.roles = ret.args.before
    /\ stored = ret.args.stored

\* the token file is missing when the stale login tries to fetch, and the
\* grants of the warehouse differ from the roles of the user
C10_Witness ==
  /\ LoginOfUser
  /\ ret.args.fetches = 1
  /\ ret.args.fetch = "FileNotFoundError"
  /\ desired_of(grants) # current_of(user.roles)

\* the login in progress fetched the grants and reconciled the roles
SyncSucceeded == LoginOfUser /\ ret.args.fetch = "ok"

\* a role outside the mirrored (application-prefix) namespace
IsPlain(name) == ~StartsWith(name, SUPERSET_ROLE_PREFIX)

Role_SF_BI_Y == <<"S", "F", "_", "B", "I", "_", "Y">>

\* C11: after a successful sync the user's roles under the application
\* prefix are exactly the desired set, and the roles outside that prefix are
\* the ones the user had, in the same order; the result is what is committed.
C11_ReconciledExactly ==
  SyncSucceeded =>
    /\ current_of(user.roles) = desired_of(grants)
    /\ SelectSeq(user.roles, IsPlain) = SelectSeq(ret.args.before, IsPlain)
    /\ stored = user.roles

\* mirrored roles {SF_OLD, SF_BI_X} and desired {SF_BI_X, SF_BI_Y} end as
\* {SF_BI_X, SF_BI_Y}, next to the untouched Gamma
C11_Witness ==
  /\ SyncSucceeded
  /\ ret.args.before = <<Role_SF_OLD, Gamma, Role_SF_BI_X>>
  /\ desired_of(grants) = {Role_SF_BI_X, Role_SF_BI_Y}
  /\ current_of(user.roles) = {Role_SF_BI_X, Role_SF_BI_Y}
  /\ Gamma \in Range(user.roles)

(***************************************************************************)
(* The REMOTE_USER middleware (SpecMiddleware)                             *)
(***************************************************************************)
ALICE == <<"A", "L", "I", "C", "E">>
Alice == <<"A", "l", "i", "c", "e">>
BELA == <<"B", "E", "L", "A">>
Bela == <<"B", "e", "l", "a">>
bela == <<"b", "e", "l", "a">>
CARL == <<"C", "A", "R", "L">>
eve == <<"e", "v", "e">>
al_ex == <<"a", "l", "@", "e", "x">>
Deny == <<"D", "e", "n", "y">>

\* {"ALICE":"al@ex","CARL":null}
MapText == 
  <<"{", Quote, "A", "L", "I", "C", "E", Quote, ":", Quote, "a", "l", "@", "e", "x", Quote,
    ",", Quote, "C", "A", "R", "L", Quote, ":", "n", "u", "l", "l", "}">>

\* {"alice":"eve"}
LowerKeyMapText == 
  <<"{", Quote, "a", "l", "i", "c", "e", Quote, ":", Quote, "e", "v", "e", Quote, "}">>

\* {"ALICE"
BrokenMapText == <<"{", Quote, "A", "L", "I", "C", "E", Quote>>

UserMaps == {None, EmptyObject, MapText, LowerKeyMapText, BrokenMapText}

Policies == {None, create, deny, Deny}

FallbackUsers == {None, <<>>, Bela}

Normalizers == {None, lower, identity}

MiddlewareEnvs ==
  {[k \in EnvNames |->
      CASE k = "SF_SUPERSET_USER_MAP" -> m [] k = "SF_USER_UNMAPPED_POLICY" -> p
        [] k = "SF_FAKE_REMOTE_USER" -> f [] k = "SF_USERNAME_NORMALIZER" -> n
        [] OTHER -> None] :
     m \in UserMaps, p \in Policies, f \in FallbackUsers, n \in Normalizers}

\* the WSGI environ of a request: the Snowflake user header, and a
\* REMOTE_USER some earlier layer may have set
Environs ==
  {h @@ r : h \in {EmptyDict} \cup {(SfUserKey :> u) : u \in {<<>>, ALICE, Alice, BELA, CARL}},
            r \in {EmptyDict, (RemoteUserKey :> eve)}}

InitMiddleware ==
  /\ env \in MiddlewareEnvs
  /\ tokenFile = File("absent", <<>>)
  /\ request = NoRequest
  /\ engine = NoEngine
  /\ conns = <<>>
  /\ ret = NoCall
  /\ now = 0
  /\ user = [name |-> None, active |-> FALSE, roles |-> <<>>, last_login |-> NoTime]
  /\ grants = {}
  /\ link = 0
  /\ sessions = NoSessions
  /\ stored = <<>>
  /\ middleware = NoMiddleware

\* the application is wrapped: SnowflakeRemoteUserMiddleware(app)
MiddlewareInit ==
  /\ ret = NoCall
  /\ ~middleware.built
  /\ \E r \in {middleware_init(env)} :
       /\ middleware' = IF r.outcome = "ok" THEN r.value ELSE middleware
       /\ ret' = Call("middleware_init", EmptyDict, [outcome |-> r.outcome, value |-> None])
  /\ UNCHANGED <<env, tokenFile, request, engine, conns, syncVars>>

\* the process environment changes after the middleware was constructed
Setenv(key, value) ==
  /\ ret = NoCall
  /\ middleware.built
  /\ env[key] # value
  /\ env' = [env EXCEPT ![key] = value]
  /\ UNCHANGED <<tokenFile, request, engine, conns, ret, syncVars, middleware>>

\* a request passes the middleware
MiddlewareCall(environ) ==
  /\ ret = NoCall
  /\ middleware.built
  /\ ret' = Call("middleware", [environ |-> environ],
                 Ok(middleware_call(middleware, environ, env)))
  /\ UNCHANGED <<env, tokenFile, request, engine, conns, syncVars, middleware>>

ReturnMiddleware ==
  /\ ret # NoCall
  /\ ret' = NoCall
  /\ UNCHANGED <<env, tokenFile, request, engine, conns, syncVars, middleware>>

NextMiddleware ==
  \/ MiddlewareInit
  \/ \E n \in Normalizers : Setenv("SF_USERNAME_NORMALIZER", n)
  \/ \E p \in Policies : Setenv("SF_USER_UNMAPPED_POLICY", p)
  \/ \E environ \in Environs : MiddlewareCall(environ)
  \/ ReturnMiddleware

SpecMiddleware == InitMiddleware /\ [][NextMiddleware]_vars

\* a request is passing the middleware
MiddlewareCalled == ret.op = "middleware"

\* the Snowflake user of the request: the header, or the fallback user the
\* middleware was constructed with when the header is absent or empty
SnowflakeUser ==
  IF Given(Get(ret.args.environ, SfUserKey)) THEN ret.args.environ[SfUserKey]
  ELSE middleware.fallback_user

UserPresent == Given(SnowflakeUser)

HasMapEntry == Upper(SnowflakeUser) \in DOMAIN middleware.map

DenyPolicy == Lower(middleware.default_policy) = deny

\* C12: under the deny policy a request whose Snowflake user (header, or
\* fallback user) has no entry in the user map is answered 403 Forbidden by
\* the middleware, which writes no REMOTE_USER and does not call the
\* application.
C12_DenyUnmapped ==
  (MiddlewareCalled /\ UserPresent /\ DenyPolicy /\ ~HasMapEntry) =>
    /\ ret.value.status = "403 Forbidden"
    /\ ~ret.value.downstream
    /\ ret.value.environ = ret.args.environ

\* the fallback user stands in for a missing header and is not in the map,
\* the policy being spelled "Deny"
C12_Witness ==
  /\ MiddlewareCalled
  /\ SfUserKey \notin DOMAIN ret.args.environ
  /\ RemoteUserKey \notin DOMAIN ret.args.environ
  /\ middleware.fallback_user = Bela
  /\ middleware.default_policy = Deny
  /\ DOMAIN middleware.map = {ALICE, CARL}
  /\ ret.value.status = "403 Forbidden"

\* the user name as SF_USERNAME_NORMALIZER has it written
Normalized(name) ==
  IF env["SF_USERNAME_NORMALIZER"] = identity THEN name ELSE Lower(name)

\* C13: a request passed downstream with a Snowflake user present carries
\* REMOTE_USER = the map entry of the upper-cased user name if there is one,
\* else (policy not deny) the user name lower-cased, or unchanged under the
\* identity normalizer; the header goes before the fallback user; with no
\* user at all the environ goes downstream as it came.
C13_RemoteUser ==
  MiddlewareCalled =>
    /\ (UserPresent /\ ret.value.downstream) =>
         /\ RemoteUserKey \in DOMAIN ret.value.environ
         /\ ret.value.environ[RemoteUserKey] =
              IF HasMapEntry THEN middleware.map[Upper(SnowflakeUser)]
              ELSE Normalized(SnowflakeUser)
         /\ ~HasMapEntry => ~DenyPolicy
         /\ \A k \in DOMAIN ret.args.environ :
              k # RemoteUserKey => ret.value.environ[k] = ret.args.environ[k]
    /\ ~UserPresent =>
         /\ ret.value.downstream
         /\ ret.value.environ = ret.args.environ

\* the header Alice wins over the fallback user and over a REMOTE_USER that
\* was there, and is found in the map under ALICE
C13_Witness ==
  /\ MiddlewareCalled
  /\ Get(ret.args.environ, SfUserKey) = Alice
  /\ Get(ret.args.environ, RemoteUserKey) = eve
  /\ middleware.fallback_user = Bela
  /\ ret.value.downstream
  /\ ret.value.environ[RemoteUserKey] = al_ex

(***************************************************************************)
(* The token readers and the diagnostic records (Spec, SpecCreate)         *)
(***************************************************************************)
\* the call in progress needs brokered credentials and read the token file
TokenReadingCall == ret.op \in {"get_sqlalchemy_engine", "creator", "connect", "role_connect"}

\* the token file exists and holds nothing but white space
EmptyTokenFile == tokenFile.kind = "ok" /\ TrimmedFile = <<>>

\* C14: a token file that is present but empty after trimming is fatal for
\* every operation that reads it (engine creation, creator(), the patched
\* connect, the role-fetch connection): the operation raises, and neither
\* falls back to the unbrokered path nor hands any kwargs to the connector.
C14_EmptyTokenFatal ==
  (TokenReadingCall /\ EmptyTokenFile) => ret.outcome # "ok"

\* the text sub occurs in the text s
Occurs(sub, s) == \E i \in 1..(Len(s) - Len(sub) + 1) : SubSeq(s, i, i + Len(sub) - 1) = sub

\* the secrets of the call in progress: the service token, the caller token
\* and the credential minted from them
Secrets ==
  {TrimmedFile}
  \cup (IF CallerTokenAvailable
        THEN {request.headers[CallerHeader],
              TrimmedFile \o <<".">> \o request.headers[CallerHeader]}
        ELSE {})

EnabledFields == {"msg", "token_len", "token_path"}

ConfigFields ==
  {"msg", "host", "account", "warehouse", "role", "database", "schema", "spcs_auth"}

\* the names of the errors of engine creation and connection creation; the
\* messages behind them carry the token path and an exception type name only
ErrorNames ==
  {"TokenNotReadable", "TokenReadFailed", "MissingAccount", "MissingCallerContext",
   "MissingCallerToken", "ValueError", "TokenNotAvailable", "OutsideRequestContext"}

\* C15: engine creation and connection creation log only when the debug flag
\* is "1", and then only the token length, the token path and the derived
\* parameters (host, account, warehouse, role, database, schema, auth mode);
\* no record and no error carries the service token, the caller token or the
\* minted credential.
C15_NoSecretLogged ==
  (ret.op \in {"get_sqlalchemy_engine", "creator"}) =>
    /\ env["SPCS_SNOWFLAKE_DEBUG"] # One => ret.logged = <<>>
    /\ ret.op = "creator" => ret.logged = <<>>
    /\ ret.outcome # "ok" => ret.outcome \in ErrorNames
    /\ \A i \in 1..Len(ret.logged) :
         /\ \/ DOMAIN ret.logged[i] = EnabledFields /\ ret.logged[i].token_len = Len(TrimmedFile)
            \/ DOMAIN ret.logged[i] = ConfigFields
         /\ \A k \in DOMAIN ret.logged[i] \ EnabledFields :
              \A secret \in Secrets : ~Occurs(secret, ret.logged[i][k])

\* a brokered engine is created in caller mode inside a request, with the
\* debug flag on: both records are written
C15_Witness ==
  /\ EngineCall /\ ret.outcome = "ok"
  /\ engine.brokered /\ engine.spcs_auth = caller
  /\ Len(ret.logged) = 2
  /\ request.headers[CallerHeader] = usrABC

\* C16: with no account variable set and a host X.privatelink.snowflakecomputing.com,
\* the account inferred is X: the whole private-link suffix is stripped, as
\* the public suffix is.
C16_PrivateLinkAccount ==
  (ResolveCalled /\ AccountVarsEmpty /\ env["SNOWFLAKE_HOST"] = acme \o PrivateLinkDomain) =>
    /\ ret.outcome = "ok"
    /\ ret.value["account"] = acme

(***************************************************************************)
(* The desired roles, the sync timestamp and concurrent syncs (SpecSync)   *)
(***************************************************************************)
Role_SF_X == <<"S", "F", "_", "X">>

\* the roles granted in the warehouse that carry the warehouse prefix
PrefixedGrants == {g \in grants : StartsWith(g, ROLE_PREFIX)}

\* the roles of the user under the application prefix
Mirrored == {user.roles[i] : i \in {j \in 1..Len(user.roles) : ~IsPlain(user.roles[j])}}

\* C17 as claimed: the warehouse prefix is stripped before the application
\* prefix is prepended, so that BI_X becomes SF_X.
C17_Original ==
  SyncSucceeded =>
    Mirrored = {SUPERSET_ROLE_PREFIX \o SubSeq(g, Len(ROLE_PREFIX) + 1, Len(g)) :
                  g \in PrefixedGrants}

\* C17 (amended): the desired roles are the warehouse roles that start with
\* the warehouse prefix, each with the application prefix prepended to its
\* whole name (BI_X becomes SF_BI_X); warehouse roles without the warehouse
\* prefix contribute nothing.
C17_DesiredRoles ==
  SyncSucceeded => Mirrored = {SUPERSET_ROLE_PREFIX \o g : g \in PrefixedGrants}

\* the warehouse grants BI_X and PUBLIC: the user ends with SF_BI_X and
\* with neither SF_X nor a role made from PUBLIC
C17_Witness ==
  /\ SyncSucceeded
  /\ grants = {BI_X, PUBLIC}
  /\ Mirrored = {Role_SF_BI_X}
  /\ ret.args.before = <<Gamma>>

\* C18: the timestamp of the user is the time of the last successful sync: a
\* login that fetched and reconciled leaves it at the time of that login, and
\* a login that did not complete a sync leaves it as it found it.
C18_SyncTimestamp ==
  LoginOfUser =>
    /\ ret.args.fetch = "ok" => user.last_login = now
    /\ ret.args.fetch # "ok" => user.last_login = ret.args.last_login

(***************************************************************************)
(* Concurrent logins of one user (SpecRace)                                *)
(*                                                                         *)
(* Every request works in a database session of its own: it loads the      *)
(* user, fetches the grants, changes its own copy of the roles and commits. *)
(* The logins are stale ones, past the TTL gate.  user is the user as it    *)
(* was before the logins, stored the roles the database holds.             *)
(***************************************************************************)
MaxWorkers == 2

Workers == 1..MaxWorkers

NoSession ==
  [pc |-> "idle", loaded |-> <<>>, roles |-> <<>>, sf_roles |-> {}, synced |-> FALSE,
   error |-> "none"]

RaceFaults == {"none", "execute"}

InitRace ==
  /\ env = AcmeEnv
  /\ tokenFile = File("ok", svc123 \o <<"\n">>)
  /\ request = [ctx |-> TRUE, id |-> 1, headers |-> (CallerHeader :> usrABC)]
  /\ engine = NoEngine
  /\ conns = <<>>
  /\ ret = NoCall
  /\ now = 0
  /\ \E roles \in SyncRoles :
       /\ user = [name |-> alice, active |-> TRUE, roles |-> roles, last_login |-> NoTime]
       /\ stored = roles
  /\ grants \in SyncGrants
  /\ link = 0
  /\ middleware = NoMiddleware
  /\ sessions = [w \in Workers |-> NoSession]

\* line 51: the session of the request loads the user with its roles
LoadUser(w) ==
  /\ sessions[w].pc = "idle"
  /\ sessions' = [sessions EXCEPT ![w] = [@ EXCEPT !.pc = "loaded", !.loaded = stored,
                                                    !.roles = stored, !.sf_roles = {},
                                                    !.error = "none"]]
  /\ UNCHANGED <<env, tokenFile, request, engine, conns, ret, now, user, grants, link,
                 stored, middleware>>

\* lines 58-61: the grants are fetched; a failed fetch ends the login
FetchRoles(w, fault) ==
  /\ sessions[w].pc = "loaded"
  /\ \E r \in {fetch_roles(env, tokenFile, request, {GrantRow(g) : g \in grants}, fault)} :
       /\ sessions' = [sessions EXCEPT ![w] =
                         IF r.outcome = "ok"
                           THEN [@ EXCEPT !.pc = "fetched", !.sf_roles = r.value]
                           ELSE [@ EXCEPT !.pc = "idle", !.error = r.outcome]]
       /\ link' = link + r.opened - r.closed
  /\ UNCHANGED <<env, tokenFile, request, engine, conns, ret, now, user, grants, stored,
                 middleware>>

\* lines 62-72: the roles of the session's copy of the user are reconciled
Reconcile(w) ==
  /\ sessions[w].pc = "fetched"
  /\ \E r \in {reconcile([roles |-> sessions[w].roles], stored,
                         [outcome |-> "ok", value |-> sessions[w].sf_roles, opened |-> 1,
                          closed |-> 1, queries |-> 1])} :
       sessions' = [sessions EXCEPT ![w] = [@ EXCEPT !.pc = "reconciled", !.roles = r.roles]]
  /\ UNCHANGED <<env, tokenFile, request, engine, conns, ret, now, user, grants, link,
                 stored, middleware>>

\* line 73: db.session.commit()
Commit(w) ==
  /\ sessions[w].pc = "reconciled"
  /\ \E c \in {commit(stored, sessions[w].loaded, sessions[w].roles)} :
       /\ stored' = c.stored
       /\ sessions' = [sessions EXCEPT ![w] =
                         [@ EXCEPT !.pc = "idle", !.error = c.outcome,
                                   !.synced = @ \/ c.outcome = "ok"]]
  /\ UNCHANGED <<env, tokenFile, request, engine, conns, ret, now, user, grants, link,
                 middleware>>

NextRace ==
  \/ \E w \in Workers : LoadUser(w)
  \/ \E w \in Workers, fault \in RaceFaults : FetchRoles(w, fault)
  \/ \E w \in Workers : Reconcile(w)
  \/ \E w \in Workers : Commit(w)

SpecRace == InitRace /\ [][NextRace]_vars

\* some login has committed its sync
SomeSynced == \E w \in Workers : sessions[w].synced

\* the roles of q outside the application prefix, in the order of q
PlainOf(q) == SelectSeq(q, IsPlain)

\* what a single sync of the user leaves: the desired roles under the
\* application prefix, the other roles as they were, no role twice
SingleSyncResult(q) ==
  /\ {n \in Range(q) : ~IsPlain(n)} = {SUPERSET_ROLE_PREFIX \o g : g \in PrefixedGrants}
  /\ PlainOf(q) = PlainOf(user.roles)
  /\ Cardinality(Range(q)) = Len(q)

FetchRolesCall(fault) ==
  /\ ret = NoCall
  /\ \E r \in {fetch_roles(env, tokenFile, request, {GrantRow(g) : g \in grants}, fault)} :
       /\ link' = link + r.opened - r.closed
       /\ ret' = Call("fetch_roles",
                      [fault |-> fault, opened |-> r.opened, closed |-> r.closed,
                       queries |-> r.queries],
                      [outcome |-> r.outcome, value |-> r.value])
  /\ UNCHANGED <<env, tokenFile, request, engine, conns, now, user, grants, stored,
                 middleware, sessions>>

NextFetch ==
  \/ \E fault \in Faults : FetchRolesCall(fault)
  \/ ReturnSync

SpecFetch == InitSync /\ [][NextFetch]_vars

FetchReturned == ret.op = "fetch_roles"

\* the connect call of the fetch gets a connection
ConnectionOpened ==
  /\ FetchReturned
  /\ request.ctx /\ Truthy(Get(request.headers, CallerHeader))
  /\ tokenFile.kind = "ok"
  /\ env["SNOWFLAKE_HOST"] # None /\ env["SNOWFLAKE_ACCOUNT"] # None
  /\ ret.args.fault # "connect"

\* C20: no connection a role fetch opened is left open, whether the fetch
\* returns or raises: the connection it got is closed once after a successful
\* query and after a failure of cursor(), execute() or fetchall(), and a fetch
\* that got no connection closes none.  The fetch runs at most one statement,
\* exactly one when it returns, and returns the set of the second column of
\* the rows.
C20_ConnectionClosed ==
  /\ link = 0
  /\ FetchReturned =>
       /\ ret.args.opened = (IF ConnectionOpened THEN 1 ELSE 0)
       /\ ret.args.closed = ret.args.opened
       /\ ret.args.queries <= 1
       /\ ret.outcome = "ok" =>
            /\ ConnectionOpened
            /\ ret.args.queries = 1
            /\ ret.value = grants

\* execute() raises on an open connection
C20_Witness ==
  /\ FetchReturned
  /\ ConnectionOpened
  /\ ret.args.fault = "execute"
  /\ ret.outcome = "ProgrammingError"
  /\ ret.args.opened = 1 /\ ret.args.closed = 1
  /\ grants = {BI_X, PUBLIC}

(***************************************************************************)
(* connect_args that name the identity of the connection (SpecIdentity)    *)
(***************************************************************************)
evil == <<"e", "v", "i", "l">>
bob == <<"b", "o", "b">>
snowflake == <<"s", "n", "o", "w", "f", "l", "a", "k", "e">>

\* the keys of connect_args that name who connects and where
IdentityKeys == {"account", "host", "authenticator", "token", "user", "username", "password"}

\* connect_args carrying every reserved key and a key that is not reserved
AllReserved ==
  [k \in IdentityKeys \cup {"client_session_keep_alive"} |->
     CASE k = "account" -> evil
       [] k = "host" -> evil \o SnowflakeDomain
       [] k = "authenticator" -> snowflake
       [] k = "token" -> usrXYZ
       [] k = "user" -> bob
       [] k = "username" -> bob
       [] k = "password" -> <<"p", "w">>
       [] OTHER -> One]

IdentityConnectArgs ==
  {EmptyDict, ("timezone" :> <<"U", "T", "C">>), AllReserved}
  \cup {(k :> AllReserved[k]) : k \in IdentityKeys}

IdentityEnvs ==
  {AcmeEnv, EnvWith(AcmeEnv, "SPCS_SNOWFLAKE_AUTH", caller),
   EnvWith(AcmeEnv, "SNOWFLAKE_HOST", None)}

IdentityFiles == {File("ok", svc123 \o <<"\n">>), File("ok", svc456)}

InitIdentity ==
  /\ env \in IdentityEnvs
  /\ tokenFile \in IdentityFiles
  /\ request \in {NoRequest, [ctx |-> TRUE, id |-> 1, headers |-> (CallerHeader :> usrABC)]}
  /\ engine = NoEngine
  /\ conns = <<>>
  /\ ret = NoCall
  /\ SyncIdle

NextIdentity ==
  \/ \E f \in IdentityFiles : RewriteTokenFile(f)
  \/ \E uri \in SpecUris, ca \in IdentityConnectArgs : GetSqlalchemyEngine(uri, ca, EmptyDict)
  \/ Dispose
  \/ CheckoutNew
  \/ \E c \in 1..Len(conns) : Release(c)
  \/ Return

SpecIdentity == InitIdentity /\ [][NextIdentity]_vars

\* the credential minted from the token file and the request of the moment
MintedNow ==
  IF engine.spcs_auth = caller
    THEN TrimmedFile \o <<".">> \o Get(request.headers, CallerHeader)
    ELSE TrimmedFile

\* C21: whatever connect_args the brokered engine was created with, every
\* connection creator() opens has authenticator oauth, the account and host
\* of the environment, the credential minted at that moment, and no user,
\* username or password.
C21_IdentityNotOverridable ==
  CreatorReturned =>
    /\ ret.value["authenticator"] = oauth
    /\ ret.value["account"] = acme
    /\ ret.value["host"] = acme \o SnowflakeDomain
    /\ ret.value["token"] = MintedNow
    /\ DOMAIN ret.value \cap {"user", "username", "password"} = {}

\* the engine was created with connect_args naming every reserved key: the
\* key that is not reserved went through, in caller mode, after the token
\* file was rewritten
C21_Witness ==
  /\ CreatorReturned
  /\ Get(ret.value, "client_session_keep_alive") = One
  /\ engine.spcs_auth = caller
  /\ engine.token # TrimmedFile

====
